---------------------------- MODULE Spec2Model ----------------------------
(***************************************************************************)
(* Model of castle_secrets.py: the detect-secrets plugin                   *)
(* CastleOpenClawDetector.  The file contributes a secret_type label and a *)
(* denylist of three compiled regular expressions, and nothing else: the   *)
(* class has no method of its own.  A scan is the analyze_string generator *)
(* the class inherits from RegexBasedDetector, whose body is not in the    *)
(* file; it is taken to be the adapter of the host framework,              *)
(*                                                                         *)
(*     for regex in self.denylist:                                         *)
(*         for match in regex.findall(string):                             *)
(*             yield match                                                 *)
(*                                                                         *)
(* A character is its Unicode code point and a text is a sequence of code  *)
(* points, so that the classes \s and \w, which Python 3 takes over all of *)
(* Unicode for a str pattern, are modelled in full.  Each regular          *)
(* expression is an operator that, like Python's backtracking matcher,     *)
(* tries the alternatives of its greedy quantifiers in priority order and  *)
(* returns the end of the first successful attempt.  Positions are         *)
(* 1-based; the end of a match is the index of the first character after   *)
(* it, and 0 stands for "no match".  The value a scan yields for a match   *)
(* is the matched text and nothing else: no rule, line or column.          *)
(***************************************************************************)
EXTENDS Integers, Sequences, FiniteSets, TLC

\* ------------------------------------------------------------------ bounds
\* Hex runs after rew_ have 0 or MinHex - MaxShortHex .. MinHex + MaxExtraHex characters.
MaxShortHex == 2
MaxExtraHex == 2
\* Whitespace runs around = have 0 .. MaxWs characters.
MaxWs == 2
\* Gateway-token values have 0 .. MinValue + MaxExtraValue characters.
MaxExtraValue == 2

\* ------------------------------------------------------ program constants
\* {32,} in rew_[a-f0-9]{32,}
MinHex == 32
\* {8,} in [^\s"']{8,}
MinValue == 8

\* -------------------------------------------------------- character classes
\* 0-9, a-z, A-Z
Digit == 48..57
Lower == 97..122
Upper == 65..90

\* The code points \s matches in a str pattern: tab to carriage return,
\* U+001C..U+0020, U+0085, U+00A0, U+1680, U+2000..U+200A, U+2028, U+2029,
\* U+202F, U+205F, U+3000.
SpaceRanges ==
    << <<9, 13>>, <<28, 32>>, <<133, 133>>, <<160, 160>>, <<5760, 5760>>,
       <<8192, 8202>>, <<8232, 8233>>, <<8239, 8239>>, <<8287, 8287>>, <<12288, 12288>> >>

\* The code points \w matches in a str pattern: the alphanumeric characters
\* of Unicode 14.0.0 and the underscore, as ranges <<first, last>>.
WordRanges ==
    << <<48, 57>>, <<65, 90>>, <<95, 95>>, <<97, 122>>, <<170, 170>>,
       <<178, 179>>, <<181, 181>>, <<185, 186>>, <<188, 190>>, <<192, 214>>,
       <<216, 246>>, <<248, 705>>, <<710, 721>>, <<736, 740>>, <<748, 748>>,
       <<750, 750>>, <<880, 884>>, <<886, 887>>, <<890, 893>>, <<895, 895>>,
       <<902, 902>>, <<904, 906>>, <<908, 908>>, <<910, 929>>, <<931, 1013>>,
       <<1015, 1153>>, <<1162, 1327>>, <<1329, 1366>>, <<1369, 1369>>, <<1376, 1416>>,
       <<1488, 1514>>, <<1519, 1522>>, <<1568, 1610>>, <<1632, 1641>>, <<1646, 1647>>,
       <<1649, 1747>>, <<1749, 1749>>, <<1765, 1766>>, <<1774, 1788>>, <<1791, 1791>>,
       <<1808, 1808>>, <<1810, 1839>>, <<1869, 1957>>, <<1969, 1969>>, <<1984, 2026>>,
       <<2036, 2037>>, <<2042, 2042>>, <<2048, 2069>>, <<2074, 2074>>, <<2084, 2084>>,
       <<2088, 2088>>, <<2112, 2136>>, <<2144, 2154>>, <<2160, 2183>>, <<2185, 2190>>,
       <<2208, 2249>>, <<2308, 2361>>, <<2365, 2365>>, <<2384, 2384>>, <<2392, 2401>>,
       <<2406, 2415>>, <<2417, 2432>>, <<2437, 2444>>, <<2447, 2448>>, <<2451, 2472>>,
       <<2474, 2480>>, <<2482, 2482>>, <<2486, 2489>>, <<2493, 2493>>, <<2510, 2510>>,
       <<2524, 2525>>, <<2527, 2529>>, <<2534, 2545>>, <<2548, 2553>>, <<2556, 2556>>,
       <<2565, 2570>>, <<2575, 2576>>, <<2579, 2600>>, <<2602, 2608>>, <<2610, 2611>>,
       <<2613, 2614>>, <<2616, 2617>>, <<2649, 2652>>, <<2654, 2654>>, <<2662, 2671>>,
       <<2674, 2676>>, <<2693, 2701>>, <<2703, 2705>>, <<2707, 2728>>, <<2730, 2736>>,
       <<2738, 2739>>, <<2741, 2745>>, <<2749, 2749>>, <<2768, 2768>>, <<2784, 2785>>,
       <<2790, 2799>>, <<2809, 2809>>, <<2821, 2828>>, <<2831, 2832>>, <<2835, 2856>>,
       <<2858, 2864>>, <<2866, 2867>>, <<2869, 2873>>, <<2877, 2877>>, <<2908, 2909>>,
       <<2911, 2913>>, <<2918, 2927>>, <<2929, 2935>>, <<2947, 2947>>, <<2949, 2954>>,
       <<2958, 2960>>, <<2962, 2965>>, <<2969, 2970>>, <<2972, 2972>>, <<2974, 2975>>,
       <<2979, 2980>>, <<2984, 2986>>, <<2990, 3001>>, <<3024, 3024>>, <<3046, 3058>>,
       <<3077, 3084>>, <<3086, 3088>>, <<3090, 3112>>, <<3114, 3129>>, <<3133, 3133>>,
       <<3160, 3162>>, <<3165, 3165>>, <<3168, 3169>>, <<3174, 3183>>, <<3192, 3198>>,
       <<3200, 3200>>, <<3205, 3212>>, <<3214, 3216>>, <<3218, 3240>>, <<3242, 3251>>,
       <<3253, 3257>>, <<3261, 3261>>, <<3293, 3294>>, <<3296, 3297>>, <<3302, 3311>>,
       <<3313, 3314>>, <<3332, 3340>>, <<3342, 3344>>, <<3346, 3386>>, <<3389, 3389>>,
       <<3406, 3406>>, <<3412, 3414>>, <<3416, 3425>>, <<3430, 3448>>, <<3450, 3455>>,
       <<3461, 3478>>, <<3482, 3505>>, <<3507, 3515>>, <<3517, 3517>>, <<3520, 3526>>,
       <<3558, 3567>>, <<3585, 3632>>, <<3634, 3635>>, <<3648, 3654>>, <<3664, 3673>>,
       <<3713, 3714>>, <<3716, 3716>>, <<3718, 3722>>, <<3724, 3747>>, <<3749, 3749>>,
       <<3751, 3760>>, <<3762, 3763>>, <<3773, 3773>>, <<3776, 3780>>, <<3782, 3782>>,
       <<3792, 3801>>, <<3804, 3807>>, <<3840, 3840>>, <<3872, 3891>>, <<3904, 3911>>,
       <<3913, 3948>>, <<3976, 3980>>, <<4096, 4138>>, <<4159, 4169>>, <<4176, 4181>>,
       <<4186, 4189>>, <<4193, 4193>>, <<4197, 4198>>, <<4206, 4208>>, <<4213, 4225>>,
       <<4238, 4238>>, <<4240, 4249>>, <<4256, 4293>>, <<4295, 4295>>, <<4301, 4301>>,
       <<4304, 4346>>, <<4348, 4680>>, <<4682, 4685>>, <<4688, 4694>>, <<4696, 4696>>,
       <<4698, 4701>>, <<4704, 4744>>, <<4746, 4749>>, <<4752, 4784>>, <<4786, 4789>>,
       <<4792, 4798>>, <<4800, 4800>>, <<4802, 4805>>, <<4808, 4822>>, <<4824, 4880>>,
       <<4882, 4885>>, <<4888, 4954>>, <<4969, 4988>>, <<4992, 5007>>, <<5024, 5109>>,
       <<5112, 5117>>, <<5121, 5740>>, <<5743, 5759>>, <<5761, 5786>>, <<5792, 5866>>,
       <<5870, 5880>>, <<5888, 5905>>, <<5919, 5937>>, <<5952, 5969>>, <<5984, 5996>>,
       <<5998, 6000>>, <<6016, 6067>>, <<6103, 6103>>, <<6108, 6108>>, <<6112, 6121>>,
       <<6128, 6137>>, <<6160, 6169>>, <<6176, 6264>>, <<6272, 6276>>, <<6279, 6312>>,
       <<6314, 6314>>, <<6320, 6389>>, <<6400, 6430>>, <<6470, 6509>>, <<6512, 6516>>,
       <<6528, 6571>>, <<6576, 6601>>, <<6608, 6618>>, <<6656, 6678>>, <<6688, 6740>>,
       <<6784, 6793>>, <<6800, 6809>>, <<6823, 6823>>, <<6917, 6963>>, <<6981, 6988>>,
       <<6992, 7001>>, <<7043, 7072>>, <<7086, 7141>>, <<7168, 7203>>, <<7232, 7241>>,
       <<7245, 7293>>, <<7296, 7304>>, <<7312, 7354>>, <<7357, 7359>>, <<7401, 7404>>,
       <<7406, 7411>>, <<7413, 7414>>, <<7418, 7418>>, <<7424, 7615>>, <<7680, 7957>>,
       <<7960, 7965>>, <<7968, 8005>>, <<8008, 8013>>, <<8016, 8023>>, <<8025, 8025>>,
       <<8027, 8027>>, <<8029, 8029>>, <<8031, 8061>>, <<8064, 8116>>, <<8118, 8124>>,
       <<8126, 8126>>, <<8130, 8132>>, <<8134, 8140>>, <<8144, 8147>>, <<8150, 8155>>,
       <<8160, 8172>>, <<8178, 8180>>, <<8182, 8188>>, <<8304, 8305>>, <<8308, 8313>>,
       <<8319, 8329>>, <<8336, 8348>>, <<8450, 8450>>, <<8455, 8455>>, <<8458, 8467>>,
       <<8469, 8469>>, <<8473, 8477>>, <<8484, 8484>>, <<8486, 8486>>, <<8488, 8488>>,
       <<8490, 8493>>, <<8495, 8505>>, <<8508, 8511>>, <<8517, 8521>>, <<8526, 8526>>,
       <<8528, 8585>>, <<9312, 9371>>, <<9450, 9471>>, <<10102, 10131>>, <<11264, 11492>>,
       <<11499, 11502>>, <<11506, 11507>>, <<11517, 11517>>, <<11520, 11557>>, <<11559, 11559>>,
       <<11565, 11565>>, <<11568, 11623>>, <<11631, 11631>>, <<11648, 11670>>, <<11680, 11686>>,
       <<11688, 11694>>, <<11696, 11702>>, <<11704, 11710>>, <<11712, 11718>>, <<11720, 11726>>,
       <<11728, 11734>>, <<11736, 11742>>, <<11823, 11823>>, <<12293, 12295>>, <<12321, 12329>>,
       <<12337, 12341>>, <<12344, 12348>>, <<12353, 12438>>, <<12445, 12447>>, <<12449, 12538>>,
       <<12540, 12543>>, <<12549, 12591>>, <<12593, 12686>>, <<12690, 12693>>, <<12704, 12735>>,
       <<12784, 12799>>, <<12832, 12841>>, <<12872, 12879>>, <<12881, 12895>>, <<12928, 12937>>,
       <<12977, 12991>>, <<13312, 19903>>, <<19968, 42124>>, <<42192, 42237>>, <<42240, 42508>>,
       <<42512, 42539>>, <<42560, 42606>>, <<42623, 42653>>, <<42656, 42735>>, <<42775, 42783>>,
       <<42786, 42888>>, <<42891, 42954>>, <<42960, 42961>>, <<42963, 42963>>, <<42965, 42969>>,
       <<42994, 43009>>, <<43011, 43013>>, <<43015, 43018>>, <<43020, 43042>>, <<43056, 43061>>,
       <<43072, 43123>>, <<43138, 43187>>, <<43216, 43225>>, <<43250, 43255>>, <<43259, 43259>>,
       <<43261, 43262>>, <<43264, 43301>>, <<43312, 43334>>, <<43360, 43388>>, <<43396, 43442>>,
       <<43471, 43481>>, <<43488, 43492>>, <<43494, 43518>>, <<43520, 43560>>, <<43584, 43586>>,
       <<43588, 43595>>, <<43600, 43609>>, <<43616, 43638>>, <<43642, 43642>>, <<43646, 43695>>,
       <<43697, 43697>>, <<43701, 43702>>, <<43705, 43709>>, <<43712, 43712>>, <<43714, 43714>>,
       <<43739, 43741>>, <<43744, 43754>>, <<43762, 43764>>, <<43777, 43782>>, <<43785, 43790>>,
       <<43793, 43798>>, <<43808, 43814>>, <<43816, 43822>>, <<43824, 43866>>, <<43868, 43881>>,
       <<43888, 44002>>, <<44016, 44025>>, <<44032, 55203>>, <<55216, 55238>>, <<55243, 55291>>,
       <<63744, 64109>>, <<64112, 64217>>, <<64256, 64262>>, <<64275, 64279>>, <<64285, 64285>>,
       <<64287, 64296>>, <<64298, 64310>>, <<64312, 64316>>, <<64318, 64318>>, <<64320, 64321>>,
       <<64323, 64324>>, <<64326, 64433>>, <<64467, 64829>>, <<64848, 64911>>, <<64914, 64967>>,
       <<65008, 65019>>, <<65136, 65140>>, <<65142, 65276>>, <<65296, 65305>>, <<65313, 65338>>,
       <<65345, 65370>>, <<65382, 65470>>, <<65474, 65479>>, <<65482, 65487>>, <<65490, 65495>>,
       <<65498, 65500>>, <<65536, 65547>>, <<65549, 65574>>, <<65576, 65594>>, <<65596, 65597>>,
       <<65599, 65613>>, <<65616, 65629>>, <<65664, 65786>>, <<65799, 65843>>, <<65856, 65912>>,
       <<65930, 65931>>, <<66176, 66204>>, <<66208, 66256>>, <<66273, 66299>>, <<66304, 66339>>,
       <<66349, 66378>>, <<66384, 66421>>, <<66432, 66461>>, <<66464, 66499>>, <<66504, 66511>>,
       <<66513, 66517>>, <<66560, 66717>>, <<66720, 66729>>, <<66736, 66771>>, <<66776, 66811>>,
       <<66816, 66855>>, <<66864, 66915>>, <<66928, 66938>>, <<66940, 66954>>, <<66956, 66962>>,
       <<66964, 66965>>, <<66967, 66977>>, <<66979, 66993>>, <<66995, 67001>>, <<67003, 67004>>,
       <<67072, 67382>>, <<67392, 67413>>, <<67424, 67431>>, <<67456, 67461>>, <<67463, 67504>>,
       <<67506, 67514>>, <<67584, 67589>>, <<67592, 67592>>, <<67594, 67637>>, <<67639, 67640>>,
       <<67644, 67644>>, <<67647, 67669>>, <<67672, 67702>>, <<67705, 67742>>, <<67751, 67759>>,
       <<67808, 67826>>, <<67828, 67829>>, <<67835, 67867>>, <<67872, 67897>>, <<67968, 68023>>,
       <<68028, 68047>>, <<68050, 68096>>, <<68112, 68115>>, <<68117, 68119>>, <<68121, 68149>>,
       <<68160, 68168>>, <<68192, 68222>>, <<68224, 68255>>, <<68288, 68295>>, <<68297, 68324>>,
       <<68331, 68335>>, <<68352, 68405>>, <<68416, 68437>>, <<68440, 68466>>, <<68472, 68497>>,
       <<68521, 68527>>, <<68608, 68680>>, <<68736, 68786>>, <<68800, 68850>>, <<68858, 68899>>,
       <<68912, 68921>>, <<69216, 69246>>, <<69248, 69289>>, <<69296, 69297>>, <<69376, 69415>>,
       <<69424, 69445>>, <<69457, 69460>>, <<69488, 69505>>, <<69552, 69579>>, <<69600, 69622>>,
       <<69635, 69687>>, <<69714, 69743>>, <<69745, 69746>>, <<69749, 69749>>, <<69763, 69807>>,
       <<69840, 69864>>, <<69872, 69881>>, <<69891, 69926>>, <<69942, 69951>>, <<69956, 69956>>,
       <<69959, 69959>>, <<69968, 70002>>, <<70006, 70006>>, <<70019, 70066>>, <<70081, 70084>>,
       <<70096, 70106>>, <<70108, 70108>>, <<70113, 70132>>, <<70144, 70161>>, <<70163, 70187>>,
       <<70272, 70278>>, <<70280, 70280>>, <<70282, 70285>>, <<70287, 70301>>, <<70303, 70312>>,
       <<70320, 70366>>, <<70384, 70393>>, <<70405, 70412>>, <<70415, 70416>>, <<70419, 70440>>,
       <<70442, 70448>>, <<70450, 70451>>, <<70453, 70457>>, <<70461, 70461>>, <<70480, 70480>>,
       <<70493, 70497>>, <<70656, 70708>>, <<70727, 70730>>, <<70736, 70745>>, <<70751, 70753>>,
       <<70784, 70831>>, <<70852, 70853>>, <<70855, 70855>>, <<70864, 70873>>, <<71040, 71086>>,
       <<71128, 71131>>, <<71168, 71215>>, <<71236, 71236>>, <<71248, 71257>>, <<71296, 71338>>,
       <<71352, 71352>>, <<71360, 71369>>, <<71424, 71450>>, <<71472, 71483>>, <<71488, 71494>>,
       <<71680, 71723>>, <<71840, 71922>>, <<71935, 71942>>, <<71945, 71945>>, <<71948, 71955>>,
       <<71957, 71958>>, <<71960, 71983>>, <<71999, 71999>>, <<72001, 72001>>, <<72016, 72025>>,
       <<72096, 72103>>, <<72106, 72144>>, <<72161, 72161>>, <<72163, 72163>>, <<72192, 72192>>,
       <<72203, 72242>>, <<72250, 72250>>, <<72272, 72272>>, <<72284, 72329>>, <<72349, 72349>>,
       <<72368, 72440>>, <<72704, 72712>>, <<72714, 72750>>, <<72768, 72768>>, <<72784, 72812>>,
       <<72818, 72847>>, <<72960, 72966>>, <<72968, 72969>>, <<72971, 73008>>, <<73030, 73030>>,
       <<73040, 73049>>, <<73056, 73061>>, <<73063, 73064>>, <<73066, 73097>>, <<73112, 73112>>,
       <<73120, 73129>>, <<73440, 73458>>, <<73648, 73648>>, <<73664, 73684>>, <<73728, 74649>>,
       <<74752, 74862>>, <<74880, 75075>>, <<77712, 77808>>, <<77824, 78894>>, <<82944, 83526>>,
       <<92160, 92728>>, <<92736, 92766>>, <<92768, 92777>>, <<92784, 92862>>, <<92864, 92873>>,
       <<92880, 92909>>, <<92928, 92975>>, <<92992, 92995>>, <<93008, 93017>>, <<93019, 93025>>,
       <<93027, 93047>>, <<93053, 93071>>, <<93760, 93846>>, <<93952, 94026>>, <<94032, 94032>>,
       <<94099, 94111>>, <<94176, 94177>>, <<94179, 94179>>, <<94208, 100343>>, <<100352, 101589>>,
       <<101632, 101640>>, <<110576, 110579>>, <<110581, 110587>>, <<110589, 110590>>, <<110592, 110882>>,
       <<110928, 110930>>, <<110948, 110951>>, <<110960, 111355>>, <<113664, 113770>>, <<113776, 113788>>,
       <<113792, 113800>>, <<113808, 113817>>, <<119520, 119539>>, <<119648, 119672>>, <<119808, 119892>>,
       <<119894, 119964>>, <<119966, 119967>>, <<119970, 119970>>, <<119973, 119974>>, <<119977, 119980>>,
       <<119982, 119993>>, <<119995, 119995>>, <<119997, 120003>>, <<120005, 120069>>, <<120071, 120074>>,
       <<120077, 120084>>, <<120086, 120092>>, <<120094, 120121>>, <<120123, 120126>>, <<120128, 120132>>,
       <<120134, 120134>>, <<120138, 120144>>, <<120146, 120485>>, <<120488, 120512>>, <<120514, 120538>>,
       <<120540, 120570>>, <<120572, 120596>>, <<120598, 120628>>, <<120630, 120654>>, <<120656, 120686>>,
       <<120688, 120712>>, <<120714, 120744>>, <<120746, 120770>>, <<120772, 120779>>, <<120782, 120831>>,
       <<122624, 122654>>, <<123136, 123180>>, <<123191, 123197>>, <<123200, 123209>>, <<123214, 123214>>,
       <<123536, 123565>>, <<123584, 123627>>, <<123632, 123641>>, <<124896, 124902>>, <<124904, 124907>>,
       <<124909, 124910>>, <<124912, 124926>>, <<124928, 125124>>, <<125127, 125135>>, <<125184, 125251>>,
       <<125259, 125259>>, <<125264, 125273>>, <<126065, 126123>>, <<126125, 126127>>, <<126129, 126132>>,
       <<126209, 126253>>, <<126255, 126269>>, <<126464, 126467>>, <<126469, 126495>>, <<126497, 126498>>,
       <<126500, 126500>>, <<126503, 126503>>, <<126505, 126514>>, <<126516, 126519>>, <<126521, 126521>>,
       <<126523, 126523>>, <<126530, 126530>>, <<126535, 126535>>, <<126537, 126537>>, <<126539, 126539>>,
       <<126541, 126543>>, <<126545, 126546>>, <<126548, 126548>>, <<126551, 126551>>, <<126553, 126553>>,
       <<126555, 126555>>, <<126557, 126557>>, <<126559, 126559>>, <<126561, 126562>>, <<126564, 126564>>,
       <<126567, 126570>>, <<126572, 126578>>, <<126580, 126583>>, <<126585, 126588>>, <<126590, 126590>>,
       <<126592, 126601>>, <<126603, 126619>>, <<126625, 126627>>, <<126629, 126633>>, <<126635, 126651>>,
       <<127232, 127244>>, <<130032, 130041>>, <<131072, 173791>>, <<173824, 177976>>, <<177984, 178205>>,
       <<178208, 183969>>, <<183984, 191456>>, <<194560, 195101>>, <<196608, 201546>> >>

\* c lies in one of the ranges.  (IsSpace and IsWord below decide the ASCII
\* characters without walking the table; the answer is the table's.)
InRanges(ranges, c) ==
    \E k \in 1..Len(ranges) : ranges[k][1] <= c /\ c <= ranges[k][2]

\* [a-f0-9]
IsHex(c) == c \in (97..102) \cup Digit
\* \s
IsSpace(c) == IF c > 32 /\ c < 133 THEN FALSE ELSE InRanges(SpaceRanges, c)
\* ["']
IsQuote(c) == c \in {34, 39}
\* [^\s"']
IsValueChar(c) == ~IsSpace(c) /\ ~IsQuote(c)
\* [a-zA-Z0-9]
IsAlnum(c) == c \in Lower \cup Upper \cup Digit
\* \w: in ASCII [a-zA-Z0-9_], the table beyond
IsWord(c) == IF c < 128 THEN IsAlnum(c) \/ c = 95 ELSE InRanges(WordRanges, c)
\* [\w.\-:]
IsHostChar(c) == IsWord(c) \/ c \in {46, 45, 58}

\* ------------------------------------------------------------- primitives
\* The literal lit stands in text at position i.
LitAt(text, i, lit) ==
    /\ i >= 1
    /\ i + Len(lit) - 1 <= Len(text)
    /\ \A k \in 1..Len(lit) : text[i + k - 1] = lit[k]

\* c belongs to the character class named cls.
InClass(cls, c) ==
    CASE cls = "hex"      -> IsHex(c)
      [] cls = "space"    -> IsSpace(c)
      [] cls = "value"    -> IsValueChar(c)
      [] cls = "host"     -> IsHostChar(c)
      [] cls = "nonspace" -> ~IsSpace(c)

\* The length of the longest run of characters of class cls in text from position i.
RunLen(text, i, cls) ==
    CHOOSE n \in 0..(Len(text) + 1 - i) :
        /\ \A k \in 0..(n - 1) : InClass(cls, text[i + k])
        /\ (i + n > Len(text) \/ ~InClass(cls, text[i + n]))

\* The character at position i, -1 past the end.
At(text, i) == IF i >= 1 /\ i <= Len(text) THEN text[i] ELSE -1

\* The greatest and the least member of a non-empty set of integers.
Max(S) == CHOOSE x \in S : \A y \in S : y <= x
Min(S) == CHOOSE x \in S : \A y \in S : x <= y

\* ---------------------------------------------------------------- literals
\* rew_
REW == <<114, 101, 119, 95>>
\* OPENCLAW_GATEWAY_TOKEN
GATEWAY_ID == <<79, 80, 69, 78, 67, 76, 65, 87, 95, 71, 65, 84, 69, 87, 65, 89, 95, 84, 79, 75, 69, 78>>
\* ${
PLACEHOLDER == <<36, 123>>
\* ws
WS == <<119, 115>>
\* ://
SCHEME_SEP == <<58, 47, 47>>
\* localhost
LOCALHOST == <<108, 111, 99, 97, 108, 104, 111, 115, 116>>
\* 127.0.0.1
LOOP127 == <<49, 50, 55, 46, 48, 46, 48, 46, 49>>
\* 0.0.0.0
LOOP0 == <<48, 46, 48, 46, 48, 46, 48>>

\* ---------------------------------------------------------------- patterns
\* Mutant: the quantifier written {33,}.
MatchRewardTokenStrict(text, i) ==
    IF LitAt(text, i, REW)
    THEN LET n == RunLen(text, i + Len(REW), "hex")
         IN  IF n > MinHex THEN i + Len(REW) + n ELSE 0
    ELSE 0

\* Mutant: the quantifier written lazy, {32,}?, which stops after 32 characters.
MatchRewardTokenLazy(text, i) ==
    IF LitAt(text, i, REW)
    THEN LET n == RunLen(text, i + Len(REW), "hex")
         IN  IF n >= MinHex THEN i + Len(REW) + MinHex ELSE 0
    ELSE 0

\* rew_[a-f0-9]{32,} at position i.  The quantifier is greedy and nothing
\* follows it, so the first successful attempt takes the whole hex run.
MatchRewardToken(text, i) ==
    IF LitAt(text, i, REW)
    THEN LET n == RunLen(text, i + Len(REW), "hex")
         IN  IF n >= MinHex THEN i + Len(REW) + n ELSE 0
    ELSE 0

\* Mutant: the negative lookahead (?!\$\{) left out.
GatewayValueEndNoLookahead(text, v) ==
    LET n == RunLen(text, v, "value")
    IN  IF n >= MinValue THEN v + n ELSE 0

\* Mutant: the value class written [^\s], which lets quotes count as value characters.
GatewayValueEndQuotes(text, v) ==
    IF LitAt(text, v, PLACEHOLDER)
    THEN 0
    ELSE LET n == RunLen(text, v, "nonspace")
         IN  IF n >= MinValue THEN v + n ELSE 0

\* The value part (?!\$\{)[^\s"']{8,} at position v.
GatewayValueEnd(text, v) ==
    IF LitAt(text, v, PLACEHOLDER)
    THEN 0
    ELSE LET n == RunLen(text, v, "value")
         IN  IF n >= MinValue THEN v + n ELSE 0

\* OPENCLAW_GATEWAY_TOKEN\s*=\s*["']?(?!\$\{)[^\s"']{8,} at position i.  An
\* attempt is <<a, b, q>>: a whitespace characters before =, b after it, q = 1
\* when the optional quote is taken.  The matcher tries greater a, then
\* greater b, then q = 1 first.
MatchGatewayToken(text, i) ==
    IF ~LitAt(text, i, GATEWAY_ID)
    THEN 0
    ELSE LET p == i + Len(GATEWAY_ID)
             Attempts ==
               { t \in (0..RunLen(text, p, "space")) \X (0..Len(text)) \X {0, 1} :
                   /\ At(text, p + t[1]) = 61
                   /\ t[2] <= RunLen(text, p + t[1] + 1, "space")
                   /\ (t[3] = 1 => IsQuote(At(text, p + t[1] + 1 + t[2])))
                   /\ GatewayValueEnd(text, p + t[1] + 1 + t[2] + t[3]) # 0 }
             Before(s, t) ==
               \/ s[1] > t[1]
               \/ s[1] = t[1] /\ s[2] > t[2]
               \/ s[1] = t[1] /\ s[2] = t[2] /\ s[3] >= t[3]
         IN  IF Attempts = {}
             THEN 0
             ELSE LET f == CHOOSE s \in Attempts : \A t \in Attempts : Before(s, t)
                  IN  GatewayValueEnd(text, p + f[1] + 1 + f[2] + f[3])

\* Mutant: the lookahead (?!0\.0\.0\.0) left out.
RemoteHostEndNoAnyAddress(text, h) ==
    IF \/ LitAt(text, h, LOCALHOST)
       \/ LitAt(text, h, LOOP127)
       \/ ~IsAlnum(At(text, h))
    THEN 0
    ELSE LET n == RunLen(text, h + 1, "host")
         IN  IF n >= 1 THEN h + 1 + n ELSE 0

\* (?!localhost)(?!127\.0\.0\.1)(?!0\.0\.0\.0)[a-zA-Z0-9][\w.\-:]+ at position h.
RemoteHostEnd(text, h) ==
    IF \/ LitAt(text, h, LOCALHOST)
       \/ LitAt(text, h, LOOP127)
       \/ LitAt(text, h, LOOP0)
       \/ ~IsAlnum(At(text, h))
    THEN 0
    ELSE LET n == RunLen(text, h + 1, "host")
         IN  IF n >= 1 THEN h + 1 + n ELSE 0

\* Mutant: the pattern anchored, ^wss?://..., which matches at the start of the text only.
MatchRemoteWsAnchored(text, i) ==
    IF i # 1 \/ ~LitAt(text, i, WS)
    THEN 0
    ELSE LET p == i + Len(WS)
             Attempts ==
               { s \in {0, 1} :
                   /\ (s = 1 => At(text, p) = 115)
                   /\ LitAt(text, p + s, SCHEME_SEP)
                   /\ ~LitAt(text, p + s + Len(SCHEME_SEP), LOCALHOST)
                   /\ ~LitAt(text, p + s + Len(SCHEME_SEP), LOOP127)
                   /\ ~LitAt(text, p + s + Len(SCHEME_SEP), LOOP0)
                   /\ IsAlnum(At(text, p + s + Len(SCHEME_SEP)))
                   /\ RunLen(text, p + s + Len(SCHEME_SEP) + 1, "host") >= 1 }
         IN  IF Attempts = {}
             THEN 0
             ELSE LET h == p + Max(Attempts) + Len(SCHEME_SEP)
                  IN  h + 1 + RunLen(text, h + 1, "host")

\* wss?://(?!localhost)(?!127\.0\.0\.1)(?!0\.0\.0\.0)[a-zA-Z0-9][\w.\-:]+ at
\* position i.  s? (s is code point 115) is greedy: the attempt with the s
\* is made first.
MatchRemoteWs(text, i) ==
    IF ~LitAt(text, i, WS)
    THEN 0
    ELSE LET p == i + Len(WS)
             Attempts ==
               { s \in {0, 1} :
                   /\ (s = 1 => At(text, p) = 115)
                   /\ LitAt(text, p + s, SCHEME_SEP)
                   /\ RemoteHostEnd(text, p + s + Len(SCHEME_SEP)) # 0 }
         IN  IF Attempts = {}
             THEN 0
             ELSE RemoteHostEnd(text, p + Max(Attempts) + Len(SCHEME_SEP))

\* The class attributes.
SecretType == "Castle/OpenClaw Secret"
Denylist == <<"reward_token", "gateway_token", "remote_ws">>

\* regex.match at position i, for the pattern named rule.
MatchAt(rule, text, i) ==
    CASE rule = "reward_token"  -> MatchRewardToken(text, i)
      [] rule = "gateway_token" -> MatchGatewayToken(text, i)
      [] rule = "remote_ws"     -> MatchRemoteWs(text, i)

\* regex.search from position from: the leftmost position where the pattern
\* matches, 0 when there is none.
Search(rule, text, from) ==
    LET S == { i \in from..Len(text) : MatchAt(rule, text, i) # 0 }
    IN  IF S = {} THEN 0 ELSE Min(S)

\* Where findall resumes after a match that ends at e.
Resume(e) == e

\* The value findall gives for the match over [s, e): the matched text.
Matched(text, s, e) == SubSeq(text, s, e - 1)

\* What a yield adds to the output.
Yield(out, m) == Append(out, m)

\* The non-overlapping matches of a pattern from position from, left to
\* right, each as <<start, end>>.
RECURSIVE MatchSpans(_, _, _)
MatchSpans(rule, text, from) ==
    LET s == Search(rule, text, from)
    IN  IF s = 0
        THEN <<>>
        ELSE LET e == MatchAt(rule, text, s)
             IN  <<<<s, e>>>> \o MatchSpans(rule, text, Resume(e))

\* regex.findall(string): the matched texts, left to right.
FindAll(rule, text) ==
    LET ms == MatchSpans(rule, text, 1)
    IN  [ k \in 1..Len(ms) |-> Matched(text, ms[k][1], ms[k][2]) ]

\* ------------------------------------------------------------------ inputs
\* 0123456789abcdef
HexDigits == <<48, 49, 50, 51, 52, 53, 54, 55, 56, 57, 97, 98, 99, 100, 101, 102>>
HexRun(n, off) == [ k \in 1..n |-> HexDigits[((k + off) % 16) + 1] ]
\* A7A7...
UpperHexRun(n) == [ k \in 1..n |-> IF k % 2 = 1 THEN 65 ELSE 55 ]

\* Reward-token texts: rew_ and a hex run, with something before and after:
\* x or rew_ before; g, a space, A, _ or U+0660 (ARABIC-INDIC DIGIT ZERO) after.
HexLengths == {0} \cup ((MinHex - MaxShortHex)..(MinHex + MaxExtraHex)) \cup {MinHex + 8}
TokenTexts ==
    { pre \o REW \o HexRun(n, off) \o post :
        pre \in {<<>>, <<120>>, REW},
        n \in HexLengths,
        off \in {0, 5},
        post \in {<<>>, <<103>>, <<32>>, <<65>>, <<95>>, <<1632>>} }
    \cup { REW \o UpperHexRun(MinHex), <<82, 69, 87, 95>> \o HexRun(MinHex, 0),
           <<114, 101, 119>> \o HexRun(MinHex, 0) }

\* Gateway-token assignments.
\* Whitespace of n characters: space and tab (kind 0), or U+00A0 NO-BREAK
\* SPACE, U+000B vertical tab and U+2003 EM SPACE (kind 1).
WsRun(n, kind) ==
    [ k \in 1..n |->
        IF kind = 0
        THEN <<32, 9>>[((k - 1) % 2) + 1]
        ELSE <<160, 11, 8195>>[((k - 1) % 3) + 1] ]
\* The whitespace before and after =.
WsPairs ==
    { <<WsRun(a, 0), WsRun(b, 0)>> : a \in 0..MaxWs, b \in 0..MaxWs }
    \cup { <<WsRun(a, 1), WsRun(MaxWs - a, 1)>> : a \in 0..MaxWs }
\* Nothing, " or '.
Quotes == {<<>>, <<34>>, <<39>>}
\* The end of the text, ", ', a space, a line feed, or U+000B vertical tab.
Terminators == {<<>>, <<34>>, <<39>>, <<32>>, <<10>>, <<11>>}
\* abcdef1234
ValueChars == <<97, 98, 99, 100, 101, 102, 49, 50, 51, 52>>
PlainValue(k) == [ j \in 1..k |-> ValueChars[((j - 1) % 10) + 1] ]
\* Values of k characters that do not begin with ${: plain, with $ first,
\* with ${ second and third, and with U+00E9 (e acute) second.
Values(k) ==
    { PlainValue(k),
      [ j \in 1..k |-> IF j = 1 THEN 36 ELSE PlainValue(k)[j] ],
      [ j \in 1..k |-> IF j = 2 THEN 36 ELSE IF j = 3 THEN 123 ELSE PlainValue(k)[j] ] }
    \cup (IF k \in {MinValue - 1, MinValue}
          THEN { [ j \in 1..k |-> IF j = 2 THEN 233 ELSE PlainValue(k)[j] ] }
          ELSE {})
ValueLengths == 0..(MinValue + MaxExtraValue)
Assignment(w, q, v, t) ==
    GATEWAY_ID \o w[1] \o <<61>> \o w[2] \o q \o v \o t
\* The assignments of C9: a value of k characters and its terminator.
ValueTexts(k) ==
    { Assignment(w, q, v, t) :
        w \in WsPairs, q \in Quotes, v \in Values(k), t \in Terminators }
\* Values that begin with ${: ${, ${}, ${SOME_VAR}, ${VAR}abcdefgh, ${{{{{{{{{
SOME_VAR == <<36, 123, 83, 79, 77, 69, 95, 86, 65, 82, 125>>
LONG_PLACEHOLDER == <<36, 123, 86, 65, 82, 125, 97, 98, 99, 100, 101, 102, 103, 104>>
PlaceholderValues ==
    { PLACEHOLDER, <<36, 123, 125>>, SOME_VAR, LONG_PLACEHOLDER, <<36, 123, 123, 123, 123, 123, 123, 123, 123, 123>> }
PlaceholderTexts ==
    { Assignment(w, q, v, t) :
        w \in WsPairs, q \in Quotes, v \in PlaceholderValues, t \in Terminators }
\* The assignments of each value length, as a table.
ValueTextsOf == [ k \in ValueLengths |-> ValueTexts(k) ]
GatewayTexts == PlaceholderTexts \cup UNION { ValueTextsOf[k] : k \in ValueLengths }
NoWs == <<<<>>, <<>>>>
\* OPENCLAW_GATEWAY_TOKEN=${SOME_VAR} and OPENCLAW_GATEWAY_TOKEN="abcdef1234"
PlaceholderExample == Assignment(NoWs, <<>>, SOME_VAR, <<>>)
QuotedExample == Assignment(NoWs, <<34>>, PlainValue(10), <<34>>)

\* WebSocket URLs.
\* ws:// and wss://
Schemes == { WS \o SCHEME_SEP, WS \o <<115>> \o SCHEME_SEP }
LoopbackHosts == { LOCALHOST, LOOP127, LOOP0 }
\* gateway.example.com
GATEWAY_HOST == <<103, 97, 116, 101, 119, 97, 121, 46, 101, 120, 97, 109, 112, 108, 101, 46, 99, 111, 109>>
\* Hosts of letters, digits, . and - that are not a loopback literal:
\* gateway.example.com, localhost.example.com, localhostx, 127.0.0.10,
\* 0.0.0.0.example.org, 10.0.0.5, my-host, local, ab, a, 7,
\* caf<U+00E9>.io and <U+00E9>cho.io.
RemoteHosts ==
    { GATEWAY_HOST,
      <<108, 111, 99, 97, 108, 104, 111, 115, 116, 46, 101, 120, 97, 109, 112, 108, 101, 46, 99, 111, 109>>,
      <<108, 111, 99, 97, 108, 104, 111, 115, 116, 120>>,
      <<49, 50, 55, 46, 48, 46, 48, 46, 49, 48>>,
      <<48, 46, 48, 46, 48, 46, 48, 46, 101, 120, 97, 109, 112, 108, 101, 46, 111, 114, 103>>,
      <<49, 48, 46, 48, 46, 48, 46, 53>>,
      <<109, 121, 45, 104, 111, 115, 116>>,
      <<108, 111, 99, 97, 108>>,
      <<97, 98>>,
      <<97>>,
      <<55>>,
      <<99, 97, 102, 233, 46, 105, 111>>,
      <<233, 99, 104, 111, 46, 105, 111>> }
\* /path and :8080
PATH == <<47, 112, 97, 116, 104>>
PORT == <<58, 56, 48, 56, 48>>
\* Nothing, :8080, /path, :8080/path, /x, /y, /, /ws/rew_abc
ShortSuffixes ==
    { <<>>, PORT, PATH, PORT \o PATH, <<47, 120>>, <<47, 121>>, <<47>>,
      <<47, 119, 115, 47, 114, 101, 119, 95, 97, 98, 99>> }
\* rew_ and 32 hex characters; wss://gateway.example.com
TOKEN == REW \o HexRun(MinHex, 0)
REMOTE_URL == WS \o <<115>> \o SCHEME_SEP \o GATEWAY_HOST
\* OPENCLAW_GATEWAY_TOKEN=abcdef12
PLAIN_ASSIGNMENT == Assignment(NoWs, <<>>, PlainValue(MinValue), <<>>)
\* Ports: none, :8080, :1, and a colon with no number.
Ports == { <<>>, PORT, <<58, 49>>, <<58>> }
\* Paths, each with the secrets written in it, left to right: paths with
\* none (empty, /, /x, /y, /path, a query and a fragment, a non-ASCII
\* segment, rew_ with 3 or 31 hex characters, a placeholder assignment, a
\* loopback URL) and paths that hold a reward token, a gateway-token
\* assignment or a remote URL.
PathCases ==
    { <<<<>>, <<>>>>,
      <<<<47>>, <<>>>>,
      <<<<47, 120>>, <<>>>>,
      <<<<47, 121>>, <<>>>>,
      <<PATH, <<>>>>,
      <<<<47, 97, 47, 98, 46, 99, 63, 100, 61, 101, 38, 102, 61, 49, 35, 103>>, <<>>>>,
      <<<<47, 99, 97, 102, 233, 47, 252>>, <<>>>>,
      <<<<47, 119, 115, 47, 114, 101, 119, 95, 97, 98, 99>>, <<>>>>,
      <<<<47>> \o REW \o HexRun(MinHex - 1, 0), <<>>>>,
      <<<<47, 63>> \o PlaceholderExample, <<>>>>,
      <<<<47, 114, 63, 117, 61, 119, 115, 58, 47, 47, 108, 111, 99, 97, 108, 104, 111, 115, 116, 58, 56, 48, 56, 48, 47, 120>>, <<>>>>,
      <<<<47>> \o TOKEN, <<TOKEN>>>>,
      <<<<47, 116, 47>> \o TOKEN \o <<47, 120>>, <<TOKEN>>>>,
      <<<<47, 63>> \o PLAIN_ASSIGNMENT, <<PLAIN_ASSIGNMENT>>>>,
      <<<<47, 114, 63, 117, 61>> \o REMOTE_URL, <<REMOTE_URL>>>> }
Paths == { c[1] : c \in PathCases }
\* The secrets written in a path.
SecretsIn(path) == (CHOOSE c \in PathCases : c[1] = path)[2]
\* A port and/or a path.
Suffixes == { p \o q : p \in Ports, q \in Paths }
LoopbackTexts == { s \o h \o x : s \in Schemes, h \in LoopbackHosts, x \in Suffixes }
\* The texts of C4: a scheme followed by a remote host.
RemoteTexts == { s \o h : s \in Schemes, h \in RemoteHosts }
UrlTexts ==
    LoopbackTexts
    \cup { s \o h \o x : s \in Schemes, h \in RemoteHosts, x \in ShortSuffixes }
\* wss://gateway.example.com/path
RemoteExample == WS \o <<115>> \o SCHEME_SEP \o GATEWAY_HOST \o PATH

\* Texts with several secrets, on one line or on several.
Segments ==
    { TOKEN, REMOTE_URL, QuotedExample, WS \o SCHEME_SEP \o LOCALHOST \o PORT }
\* A space or a line feed.
Separators == { <<32>>, <<10>> }
MixedTexts ==
    { a \o s \o b : a \in Segments, s \in Separators, b \in Segments }
    \cup { a \o s \o b \o t \o c :
             a \in Segments, s \in Separators, b \in Segments, t \in Separators,
             c \in Segments }
\* A gateway-token assignment whose value is itself a reward token or a remote URL.
NestedTexts ==
    { Assignment(NoWs, q, v, <<>>) :
        q \in Quotes, v \in { TOKEN, REMOTE_URL, WS \o SCHEME_SEP \o GATEWAY_HOST } }

Texts == TokenTexts \cup GatewayTexts \cup UrlTexts \cup MixedTexts \cup NestedTexts

\* ------------------------------------------------------------------- state
\* text, denylist, secret_type: the scanned string and the class attributes.
\* pc, ruleIdx, pos: where the generator stands (the pattern the outer loop
\* is at, and the position findall has reached in text).  findings: the
\* values yielded so far, each a matched text.
VARIABLES text, denylist, secret_type, pc, ruleIdx, pos, findings

vars == <<text, denylist, secret_type, pc, ruleIdx, pos, findings>>

Init ==
    /\ text \in Texts
    /\ denylist = Denylist
    /\ secret_type = SecretType
    /\ pc = "idle"
    /\ ruleIdx = 1
    /\ pos = 1
    /\ findings = <<>>

\* analyze_string is called: the generator starts at the first pattern.
BeginScan ==
    /\ pc = "idle"
    /\ pc' = "scanning"
    /\ ruleIdx' = 1
    /\ pos' = 1
    /\ findings' = <<>>
    /\ UNCHANGED <<text, denylist, secret_type>>

\* The current pattern matches again: the matched text is yielded.
YieldMatch ==
    /\ pc = "scanning"
    /\ ruleIdx <= Len(denylist)
    /\ LET rule == denylist[ruleIdx]
           s == Search(rule, text, pos)
           e == MatchAt(rule, text, s)
       IN  /\ s # 0
           /\ findings' = Yield(findings, Matched(text, s, e))
           /\ pos' = Resume(e)
    /\ UNCHANGED <<text, denylist, secret_type, pc, ruleIdx>>

\* The current pattern has no further match: the loop goes to the next pattern.
NextRule ==
    /\ pc = "scanning"
    /\ ruleIdx <= Len(denylist)
    /\ Search(denylist[ruleIdx], text, pos) = 0
    /\ ruleIdx' = ruleIdx + 1
    /\ pos' = 1
    /\ UNCHANGED <<text, denylist, secret_type, pc, findings>>

\* The denylist is exhausted: the generator ends.
Finish ==
    /\ pc = "scanning"
    /\ ruleIdx > Len(denylist)
    /\ pc' = "done"
    /\ UNCHANGED <<text, denylist, secret_type, ruleIdx, pos, findings>>

Next == BeginScan \/ YieldMatch \/ NextRule \/ Finish

Spec == Init /\ [][Next]_vars

\* --------------------------------------------------------------- properties
Done == pc = "done"

\* The names of the three rules, and the literal each pattern begins with.
Rules == {"reward_token", "gateway_token", "remote_ws"}
RuleLiteral(rule) ==
    CASE rule = "reward_token"  -> REW
      [] rule = "gateway_token" -> GATEWAY_ID
      [] rule = "remote_ws"     -> WS
\* A yielded text carries no rule; it tells its rule by the literal it begins
\* with.  Indices of the yielded texts that begin with the literal of rule:
FromRule(rule) ==
    { k \in 1..Len(findings) : LitAt(findings[k], 1, RuleLiteral(rule)) }
\* The yielded texts that begin with rew_, in the order of the output.
IsTokenText(f) == LitAt(f, 1, REW)
TokenFindings == SelectSeq(findings, IsTokenText)
\* The places of the matches of a rule in the scanned text, left to right.
SpansOf(rule) == MatchSpans(rule, text, 1)
\* 1-based line and column of position i of t (lines end with a line feed).
LineOf(t, i) == 1 + Cardinality({ k \in 1..(i - 1) : t[k] = 10 })
ColumnOf(t, i) == i - Max({0} \cup { k \in 1..(i - 1) : t[k] = 10 })
\* Lowercase hex, as the specification words it: 0-9 and a-f.
LowerHex == (48..57) \cup (97..102)
\* The length of the maximal run of lowercase hex characters of t from position j.
LowerHexRun(t, j) ==
    CHOOSE n \in 0..(Len(t) + 1 - j) :
        /\ \A k \in 0..(n - 1) : t[j + k] \in LowerHex
        /\ (j + n > Len(t) \/ t[j + n] \notin LowerHex)
\* t holds rew_ followed by at least 32 lowercase hex characters.
HasToken(t) ==
    \E i \in 1..Len(t) :
        /\ LitAt(t, i, REW)
        /\ \A k \in 0..31 : At(t, i + 4 + k) \in LowerHex

\* C1: a scan yields a Finding from the reward-token rule if and only if the
\* text contains rew_ immediately followed by at least 32 lowercase hex
\* characters; rew_ with exactly 32 yields one Finding, rew_ with only 31
\* (then the end or a non-hex character) yields none.
C1_TokenRuleIff ==
    Done =>
      /\ (FromRule("reward_token") # {}) <=> HasToken(text)
      /\ (text = REW \o HexRun(32, 0) => Len(findings) = 1)
      /\ (text \in { REW \o HexRun(31, 0) \o x : x \in {<<>>, <<103>>, <<32>>, <<1632>>} }
            => findings = <<>>)
C1_Witness ==
    /\ Done
    /\ text = REW \o HexRun(32, 0)
    /\ findings = <<text>>
    /\ FromRule("reward_token") = {1}

\* C2: for an assignment OPENCLAW_GATEWAY_TOKEN, whitespace, =, whitespace,
\* optional quote and a value that begins with ${, the gateway-token rule
\* yields no Finding; OPENCLAW_GATEWAY_TOKEN="abcdef1234" yields exactly one
\* Finding, from the gateway-token rule.
C2_PlaceholderSuppressed ==
    Done =>
      /\ (text \in PlaceholderTexts => FromRule("gateway_token") = {})
      /\ (text = PlaceholderExample => findings = <<>>)
      /\ (text = QuotedExample =>
            /\ findings = <<SubSeq(text, 1, Len(text) - 1)>>
            /\ FromRule("gateway_token") = {1})
\* A quoted placeholder with Unicode whitespace on both sides of =.
C2_Witness ==
    /\ Done
    /\ text = Assignment(<<WsRun(1, 1), WsRun(MaxWs - 1, 1)>>, <<34>>,
                         LONG_PLACEHOLDER, <<34>>)
    /\ findings = <<>>

C4_RemoteHostsReported ==
    (Done /\ text \in RemoteTexts) => FromRule("remote_ws") # {}

\* C5: the Findings that begin with rew_ are the matches of the token rule,
\* left to right; for rew_ followed by a maximal run of n >= 32 lowercase hex
\* characters, one match of the rule covers the token, the Finding for it
\* has matched_text rew_ and all n characters, and no other match of the
\* rule lies in the token's span.
C5_LongestMatch ==
    Done =>
      /\ TokenFindings = FindAll("reward_token", text)
      /\ \A i \in 1..Len(text) :
           LET n == LowerHexRun(text, i + 4)
               ms == SpansOf("reward_token")
               inside == { k \in 1..Len(ms) : ms[k][1] < i + 4 + n /\ ms[k][2] > i }
           IN  (LitAt(text, i, REW) /\ n >= 32) =>
                 /\ Cardinality(inside) = 1
                 /\ \A k \in inside :
                      /\ ms[k] = <<i, i + 4 + n>>
                      /\ TokenFindings[k] = SubSeq(text, i, i + 3 + n)
C5_Witness ==
    /\ Done
    /\ text = REW \o HexRun(40, 0)
    /\ Len(findings) = 1
    /\ Len(findings[1]) = 44

\* The matches of all rules in t, each as <<start, end>>.
AllSpans(t) ==
    UNION { { MatchSpans(rule, t, 1)[k] : k \in 1..Len(MatchSpans(rule, t, 1)) } :
              rule \in Rules }
\* The match a starts before the match b, by (line, column).
PositionBefore(t, a, b) ==
    \/ LineOf(t, a[1]) < LineOf(t, b[1])
    \/ /\ LineOf(t, a[1]) = LineOf(t, b[1])
       /\ ColumnOf(t, a[1]) < ColumnOf(t, b[1])
\* The matched texts of the matches S of t in ascending order of (line, column).
RECURSIVE InPositionOrder(_, _)
InPositionOrder(t, S) ==
    IF S = {}
    THEN <<>>
    ELSE LET a == CHOOSE x \in S : \A y \in S : ~PositionBefore(t, y, x)
         IN  <<Matched(t, a[1], a[2])>> \o InPositionOrder(t, S \ {a})

C9_ValueLengthBoundary ==
    Done =>
      \A k \in ValueLengths :
          text \in ValueTextsOf[k] => ((FromRule("gateway_token") # {}) <=> k >= 8)
\* A quoted value of 8 characters after Unicode whitespace, ended by a vertical tab.
C9_Witness ==
    /\ Done
    /\ text = Assignment(<<WsRun(1, 1), WsRun(MaxWs - 1, 1)>>, <<39>>,
                         PlainValue(8), <<11>>)
    /\ Len(findings) = 1
    /\ FromRule("gateway_token") = {1}

\* C10: every match of a rule begins with the literal of its rule (rew_,
\* OPENCLAW_GATEWAY_TOKEN, ws), matches of two different rules never start
\* at the same position, and an assignment whose value is a reward token or
\* a remote WebSocket URL yields two Findings, one from the gateway-token
\* rule and one from the other rule, with overlapping spans and different
\* matched_text.
C10_RulesIndependent ==
    Done =>
      /\ \A rule \in Rules :
           \A k \in 1..Len(SpansOf(rule)) :
               LitAt(text, SpansOf(rule)[k][1], RuleLiteral(rule))
      /\ \A r1, r2 \in Rules :
           r1 # r2 =>
             \A i \in 1..Len(SpansOf(r1)), j \in 1..Len(SpansOf(r2)) :
                 SpansOf(r1)[i][1] # SpansOf(r2)[j][1]
      /\ text \in NestedTexts =>
           LET g == SpansOf("gateway_token")
               o == SpansOf("reward_token") \o SpansOf("remote_ws")
           IN  /\ Len(findings) = 2
               /\ findings[1] # findings[2]
               /\ Cardinality(FromRule("gateway_token")) = 1
               /\ Cardinality(FromRule("reward_token") \cup FromRule("remote_ws")) = 1
               /\ Len(g) = 1
               /\ Len(o) = 1
               /\ { findings[1], findings[2] }
                    = { Matched(text, g[1][1], g[1][2]), Matched(text, o[1][1], o[1][2]) }
               /\ g[1][1] < o[1][2]
               /\ o[1][1] < g[1][2]
C10_Witness ==
    /\ Done
    /\ text = Assignment(NoWs, <<>>, TOKEN, <<>>)
    /\ findings = <<TOKEN, text>>
    /\ FromRule("reward_token") = {1}
    /\ FromRule("gateway_token") = {2}
=============================================================================
